---- MODULE Spec2Model ----
(***************************************************************************)
(* A model of the regular-expression engine of src/regex.py.               *)
(*                                                                         *)
(* A Python str is modelled as a sequence of one-character strings; the   *)
(* backslash character is written "\\".  The three matchers are pure       *)
(* functions and are translated as recursive operators that follow the     *)
(* branches of the code in the code's order.  regex_search is modelled as  *)
(* a small-step machine: the dispatch on the anchors and one step for      *)
(* every iteration of its two scanning loops.                              *)
(***************************************************************************)
EXTENDS Integers, Sequences, FiniteSets, TLC

VARIABLES
    regex,       \* the pattern of the call
    string,      \* the subject of the call
    op,          \* the function called: "match", "full", "prefix", "search"
    pc,          \* "start", "scan_full", "scan_prefix", "done"; in main also
                 \* "input" and "printed"; "ValueError" or "IndexError"
                 \* while that exception propagates
    core_regex,  \* regex_search: the pattern without its anchors
    i,           \* regex_search: the loop variable of the running scan
    tried,       \* regex_search: the offsets a core matcher was called at
    result,      \* the value returned, once pc = "done"
    line,        \* main: the line read from the console
    out,         \* main: the text printed, "" before the print
    card,        \* banking: the committed rows of table card, number -> balance
    conn,        \* banking: the sqlite3 connection, its open transaction and
                 \* the rows as seen through it
    bank,        \* banking: the position of the program, the locals of the
                 \* functions that are running and the message last printed
    card_before, \* banking: the committed rows when the running call of
                 \* transfer was made
    machine,     \* coffee_machine: the fields of the CoffeeMachine object
    last         \* coffee_machine: the action last processed, what was typed
                 \* for it, the machine before it, and the count of the
                 \* actions processed

regex_vars == <<regex, string, op, pc, core_regex, i, tried, result, line, out>>
bank_vars == <<card, conn, bank, card_before>>
machine_vars == <<machine, last>>
vars == <<regex_vars, bank_vars, machine_vars>>

(***************************************************************************)
(* Bounds of the model: the longest pattern and the longest subject drawn  *)
(* by each specification.                                                  *)
(***************************************************************************)
MaxPat == 4
MaxStr == 4
MaxAnchPat == 4
MaxAnchStr == 3
MaxEscPat == 3
MaxEscStr == 2

\* The backslash character.
BS == "\\"

Literals == {"a", "b"}
Quantifiers == {"?", "*", "+"}

\* All sequences over the alphabet A of length at most n.
SeqsUpTo(A, n) == UNION {[1..k -> A] : k \in 0..n}

(***************************************************************************)
(* Python slices and string tests: s[n:], s[:-1], s[1:-1], startswith,     *)
(* endswith.                                                               *)
(***************************************************************************)
From(s, n) == SubSeq(s, n + 1, Len(s))
DropLast(s) == SubSeq(s, 1, Len(s) - 1)
Inner(s) == SubSeq(s, 2, Len(s) - 1)
startswith(s, c) == Len(s) >= 1 /\ s[1] = c
endswith(s, c) == Len(s) >= 1 /\ s[Len(s)] = c

(***************************************************************************)
(* regex_match: one pattern character against one subject character.       *)
(***************************************************************************)
regex_match_nodot(r, s) == r = s

\* '[' taken as the start of a character class that accepts anything.
regex_match_class(r, s) == IF r \in {".", "["} THEN TRUE ELSE r = s

regex_match(r, s) == IF r = "." THEN TRUE ELSE r = s

(***************************************************************************)
(* The length checks that guard the reads of regex[1]: len(regex) >= 2 in  *)
(* the escape step and len(regex) > 1 in the quantified-atom step.         *)
(***************************************************************************)
\* The escape step looks ahead and leaves a quantified pair to later steps.
has_two_unquantified(re) ==
    Len(re) >= 2 /\ ~(Len(re) >= 3 /\ re[3] \in {"?", "*", "+"})

has_two(re) == Len(re) >= 2

has_second_unchecked(re) == TRUE

has_second(re) == Len(re) > 1

(***************************************************************************)
(* The tests of the quantified-atom step: regex[1] in '?*+', meta in '?*'  *)
(* (the atom may be skipped) and meta in '*+' (the atom may repeat).  The  *)
(* code writes the same three tests in regex_match_full and in             *)
(* regex_match_prefix.                                                     *)
(***************************************************************************)
is_quantifier_no_question(c) == c \in {"*", "+"}

is_quantifier(c) == c \in {"?", "*", "+"}

may_skip_no_star(meta) == meta \in {"?"}

may_skip_plus(meta) == meta \in {"?", "*", "+"}

may_skip(meta) == meta \in {"?", "*"}

may_repeat_question(meta) == meta \in {"?", "*", "+"}

may_repeat_star_only(meta) == meta \in {"*"}

may_repeat(meta) == meta \in {"*", "+"}

(***************************************************************************)
(* A matcher without backtracking, to compare regex_match_full with: a     *)
(* quantified atom takes as many characters as it can in a single pass.    *)
(***************************************************************************)
RECURSIVE regex_match_full_greedy(_, _)
regex_match_full_greedy(re, str) ==
    IF re = <<>> THEN str = <<>>
    ELSE IF re[1] = BS /\ has_two(re)
    THEN IF str # <<>> /\ re[2] = str[1]
         THEN regex_match_full_greedy(From(re, 2), From(str, 1))
         ELSE FALSE
    ELSE IF has_second(re) /\ is_quantifier(re[2])
    THEN LET char == re[1]
             meta == re[2]
         IN IF str # <<>> /\ regex_match(char, str[1])
            THEN IF may_repeat(meta)
                 THEN regex_match_full_greedy(<<char, "*">> \o From(re, 2),
                                              From(str, 1))
                 ELSE regex_match_full_greedy(From(re, 2), From(str, 1))
            ELSE may_skip(meta) /\ regex_match_full_greedy(From(re, 2), str)
    ELSE IF str # <<>> /\ regex_match(re[1], str[1])
    THEN regex_match_full_greedy(From(re, 1), From(str, 1))
    ELSE FALSE

(***************************************************************************)
(* regex_match_full: the whole string must be consumed.                    *)
(***************************************************************************)
\* The base case of regex_match_prefix in regex_match_full: an empty pattern
\* accepts whatever is left of the string.
RECURSIVE regex_match_full_base_true(_, _)
regex_match_full_base_true(re, str) ==
    IF re = <<>> THEN TRUE
    ELSE IF re[1] = BS /\ has_two(re)
    THEN IF str # <<>> /\ re[2] = str[1]
         THEN regex_match_full_base_true(From(re, 2), From(str, 1))
         ELSE FALSE
    ELSE IF has_second(re) /\ is_quantifier(re[2])
    THEN LET char == re[1]
             meta == re[2]
         IN IF may_skip(meta) /\ regex_match_full_base_true(From(re, 2), str)
            THEN TRUE
            ELSE IF str # <<>> /\ regex_match(char, str[1])
            THEN IF regex_match_full_base_true(From(re, 2), From(str, 1))
                 THEN TRUE
                 ELSE IF may_repeat(meta)
                         /\ regex_match_full_base_true(re, From(str, 1))
                 THEN TRUE
                 ELSE FALSE
            ELSE FALSE
    ELSE IF str # <<>> /\ regex_match(re[1], str[1])
    THEN regex_match_full_base_true(From(re, 1), From(str, 1))
    ELSE FALSE

RECURSIVE regex_match_full(_, _)
regex_match_full(re, str) ==
    IF re = <<>> THEN str = <<>>
    ELSE IF re[1] = BS /\ has_two(re)
    THEN IF str # <<>> /\ re[2] = str[1]
         THEN regex_match_full(From(re, 2), From(str, 1))
         ELSE FALSE
    ELSE IF has_second(re) /\ is_quantifier(re[2])
    THEN LET char == re[1]
             meta == re[2]
         IN IF may_skip(meta) /\ regex_match_full(From(re, 2), str)
            THEN TRUE
            ELSE IF str # <<>> /\ regex_match(char, str[1])
            THEN IF regex_match_full(From(re, 2), From(str, 1))
                 THEN TRUE
                 ELSE IF may_repeat(meta) /\ regex_match_full(re, From(str, 1))
                 THEN TRUE
                 ELSE FALSE
            ELSE FALSE
    ELSE IF str # <<>> /\ regex_match(re[1], str[1])
    THEN regex_match_full(From(re, 1), From(str, 1))
    ELSE FALSE

(***************************************************************************)
(* regex_match_prefix: an unconsumed rest of the string is allowed.        *)
(***************************************************************************)
\* The base case of regex_match_full kept: the rest of the string is not
\* allowed to stay unconsumed.
regex_match_prefix_as_full(re, str) == regex_match_full(re, str)

RECURSIVE regex_match_prefix(_, _)
regex_match_prefix(re, str) ==
    IF re = <<>> THEN TRUE
    ELSE IF re[1] = BS /\ has_two(re)
    THEN IF str # <<>> /\ re[2] = str[1]
         THEN regex_match_prefix(From(re, 2), From(str, 1))
         ELSE FALSE
    ELSE IF has_second(re) /\ is_quantifier(re[2])
    THEN LET char == re[1]
             meta == re[2]
         IN IF may_skip(meta) /\ regex_match_prefix(From(re, 2), str)
            THEN TRUE
            ELSE IF str # <<>> /\ regex_match(char, str[1])
            THEN IF regex_match_prefix(From(re, 2), From(str, 1))
                 THEN TRUE
                 ELSE IF may_repeat(meta) /\ regex_match_prefix(re, From(str, 1))
                 THEN TRUE
                 ELSE FALSE
            ELSE FALSE
    ELSE IF str # <<>> /\ regex_match(re[1], str[1])
    THEN regex_match_prefix(From(re, 1), From(str, 1))
    ELSE FALSE

(***************************************************************************)
(* The IndexError of a core matcher.  match_raises follows the control     *)
(* flow of regex_match_full ("full") or regex_match_prefix ("prefix") and  *)
(* is true when a read of regex[0], regex[1] or string[0] on the path the  *)
(* call takes is out of range, in the call itself or in a recursive call   *)
(* it makes.  Index n of a Python str exists when n < len.                 *)
(***************************************************************************)
index_exists(s, n) == n < Len(s)

match_value(mode, re, str) ==
    IF mode = "full" THEN regex_match_full(re, str)
                     ELSE regex_match_prefix(re, str)

RECURSIVE match_raises(_, _, _)
match_raises(mode, re, str) ==
    IF re = <<>> THEN FALSE
    ELSE IF ~index_exists(re, 0) THEN TRUE
    ELSE IF re[1] = BS /\ has_two(re)
    THEN IF str = <<>> THEN FALSE
         ELSE IF ~index_exists(re, 1) \/ ~index_exists(str, 0) THEN TRUE
         ELSE IF re[2] = str[1]
         THEN match_raises(mode, From(re, 2), From(str, 1))
         ELSE FALSE
    ELSE IF has_second(re) /\ ~index_exists(re, 1) THEN TRUE
    ELSE IF has_second(re) /\ is_quantifier(re[2])
    THEN LET char == re[1]
             meta == re[2]
         IN IF may_skip(meta) /\ match_raises(mode, From(re, 2), str)
            THEN TRUE
            ELSE IF may_skip(meta) /\ match_value(mode, From(re, 2), str)
            THEN FALSE
            ELSE IF str = <<>> THEN FALSE
            ELSE IF ~index_exists(str, 0) THEN TRUE
            ELSE IF regex_match(char, str[1])
            THEN IF match_raises(mode, From(re, 2), From(str, 1))
                 THEN TRUE
                 ELSE IF match_value(mode, From(re, 2), From(str, 1))
                 THEN FALSE
                 ELSE may_repeat(meta) /\ match_raises(mode, re, From(str, 1))
            ELSE FALSE
    ELSE IF str = <<>> THEN FALSE
    ELSE IF ~index_exists(str, 0) THEN TRUE
    ELSE IF regex_match(re[1], str[1])
    THEN match_raises(mode, From(re, 1), From(str, 1))
    ELSE FALSE

(***************************************************************************)
(* The recursive calls a core matcher makes.  direct_calls gives, in the   *)
(* order the code makes them, the <<regex, string>> arguments of the       *)
(* recursive calls made by the call (re, str) itself: a later call of the  *)
(* quantified-atom step is made only when the earlier ones returned false. *)
(***************************************************************************)
\* The continue-repetition call is made with the string unchanged.
direct_calls_same_string(mode, re, str) ==
    IF re = <<>> THEN <<>>
    ELSE IF re[1] = BS /\ has_two(re)
    THEN IF str # <<>> /\ re[2] = str[1]
         THEN <<(<<From(re, 2), From(str, 1)>>)>>
         ELSE <<>>
    ELSE IF has_second(re) /\ is_quantifier(re[2])
    THEN LET char == re[1]
             meta == re[2]
             skip == <<From(re, 2), str>>
             once == <<From(re, 2), From(str, 1)>>
             more == <<re, str>>
             skipped == may_skip(meta) /\ match_value(mode, skip[1], skip[2])
         IN (IF may_skip(meta) THEN <<skip>> ELSE <<>>)
            \o (IF ~skipped /\ str # <<>> /\ regex_match(char, str[1])
                THEN <<once>>
                     \o (IF ~match_value(mode, once[1], once[2])
                            /\ may_repeat(meta)
                         THEN <<more>>
                         ELSE <<>>)
                ELSE <<>>)
    ELSE IF str # <<>> /\ regex_match(re[1], str[1])
    THEN <<(<<From(re, 1), From(str, 1)>>)>>
    ELSE <<>>

\* The continue-repetition call is made before the end-repetition call.
direct_calls_end_last(mode, re, str) ==
    IF re = <<>> THEN <<>>
    ELSE IF re[1] = BS /\ has_two(re)
    THEN IF str # <<>> /\ re[2] = str[1]
         THEN <<(<<From(re, 2), From(str, 1)>>)>>
         ELSE <<>>
    ELSE IF has_second(re) /\ is_quantifier(re[2])
    THEN LET char == re[1]
             meta == re[2]
             skip == <<From(re, 2), str>>
             once == <<From(re, 2), From(str, 1)>>
             more == <<re, From(str, 1)>>
             skipped == may_skip(meta) /\ match_value(mode, skip[1], skip[2])
             fits == ~skipped /\ str # <<>> /\ regex_match(char, str[1])
             repeated == fits /\ may_repeat(meta)
                             /\ match_value(mode, more[1], more[2])
         IN (IF may_skip(meta) THEN <<skip>> ELSE <<>>)
            \o (IF fits /\ may_repeat(meta) THEN <<more>> ELSE <<>>)
            \o (IF fits /\ ~repeated THEN <<once>> ELSE <<>>)
    ELSE IF str # <<>> /\ regex_match(re[1], str[1])
    THEN <<(<<From(re, 1), From(str, 1)>>)>>
    ELSE <<>>

\* The calls of the quantified-atom step in the order continue-repetition,
\* end-repetition, skip.
direct_calls_repeat_first(mode, re, str) ==
    IF re = <<>> THEN <<>>
    ELSE IF re[1] = BS /\ has_two(re)
    THEN IF str # <<>> /\ re[2] = str[1]
         THEN <<(<<From(re, 2), From(str, 1)>>)>>
         ELSE <<>>
    ELSE IF has_second(re) /\ is_quantifier(re[2])
    THEN LET char == re[1]
             meta == re[2]
             skip == <<From(re, 2), str>>
             once == <<From(re, 2), From(str, 1)>>
             more == <<re, From(str, 1)>>
             fits == str # <<>> /\ regex_match(char, str[1])
             repeated == fits /\ may_repeat(meta)
                             /\ match_value(mode, more[1], more[2])
             ended == fits /\ ~repeated /\ match_value(mode, once[1], once[2])
         IN (IF fits /\ may_repeat(meta) THEN <<more>> ELSE <<>>)
            \o (IF fits /\ ~repeated THEN <<once>> ELSE <<>>)
            \o (IF ~repeated /\ ~ended /\ may_skip(meta) THEN <<skip>> ELSE <<>>)
    ELSE IF str # <<>> /\ regex_match(re[1], str[1])
    THEN <<(<<From(re, 1), From(str, 1)>>)>>
    ELSE <<>>

direct_calls(mode, re, str) ==
    IF re = <<>> THEN <<>>
    ELSE IF re[1] = BS /\ has_two(re)
    THEN IF str # <<>> /\ re[2] = str[1]
         THEN <<(<<From(re, 2), From(str, 1)>>)>>
         ELSE <<>>
    ELSE IF has_second(re) /\ is_quantifier(re[2])
    THEN LET char == re[1]
             meta == re[2]
             skip == <<From(re, 2), str>>
             once == <<From(re, 2), From(str, 1)>>
             more == <<re, From(str, 1)>>
             skipped == may_skip(meta) /\ match_value(mode, skip[1], skip[2])
         IN (IF may_skip(meta) THEN <<skip>> ELSE <<>>)
            \o (IF ~skipped /\ str # <<>> /\ regex_match(char, str[1])
                THEN <<once>>
                     \o (IF ~match_value(mode, once[1], once[2])
                            /\ may_repeat(meta)
                         THEN <<more>>
                         ELSE <<>>)
                ELSE <<>>)
    ELSE IF str # <<>> /\ regex_match(re[1], str[1])
    THEN <<(<<From(re, 1), From(str, 1)>>)>>
    ELSE <<>>

(***************************************************************************)
(* The inputs of a call: a pattern and a subject.  Every specification     *)
(* draws them from all sequences over an alphabet up to a length, and adds *)
(* the pairs the specification's section 8 names.                          *)
(***************************************************************************)
CorePatterns == SeqsUpTo(Literals \cup {"."} \cup Quantifiers, MaxPat)
CoreSubjects == SeqsUpTo(Literals, MaxStr)
CoreExamples ==
    { <<(<<"a", ".", "c">>), (<<"a", "b", "c">>)>>,
      <<(<<"a", ".", "c">>), (<<"a", "c">>)>>,
      <<(<<"a", "*", "a", "b">>), (<<"a", "a", "a", "b">>)>>,
      <<(<<"a", "*">>), (<<"a", "a", "a", "a">>)>>,
      <<(<<"b">>), (<<"a", "a", "a", "b", "a", "a", "a">>)>> }

SearchPatterns == SeqsUpTo(Literals \cup {".", "*", "^", "$"}, MaxAnchPat)
SearchSubjects == SeqsUpTo(Literals, MaxAnchStr)
SearchExamples ==
    { <<(<<"^", "a", "b", "c", "$">>), (<<"a", "b", "c">>)>>,
      <<(<<"^", "a", "b", "c", "$">>), (<<"a", "b", "c", "d">>)>>,
      <<(<<"^", "a", "b", "c", "$">>), (<<"x", "a", "b", "c">>)>>,
      <<(<<"c", "$">>), (<<"a", "b", "c">>)>>,
      <<(<<"c", "$">>), (<<"a", "b", "c", "d">>)>>,
      <<(<<"^", "b">>), (<<"a", "b">>)>> }

AllChars == {"a", ".", "?", "*", "+", "^", "$", BS}
SubjectChars == {"a", ".", "*", "^", "$", BS}
AllPatterns == SeqsUpTo(AllChars, MaxEscPat)
AllSubjects == SeqsUpTo(SubjectChars, MaxEscStr)
AllExamples ==
    { <<(<<"a", BS, ".", "b">>), (<<"a", ".", "b">>)>>,
      <<(<<"a", BS, ".", "b">>), (<<"a", "x", "b">>)>> }

(***************************************************************************)
(* The other two programs at their start: banking.py with its main menu on *)
(* a new database file, coffee_machine.py with the machine that            *)
(* CoffeeMachine.__init__ builds.                                          *)
(***************************************************************************)
NoRows == [n \in {} |-> 0]

InitBank ==
    /\ card = NoRows
    /\ conn = [in_transaction |-> FALSE, rows |-> NoRows]
    /\ bank = [pc |-> "main", account_number |-> <<>>, target_number |-> <<>>,
               amount |-> 0, sender_balance |-> 0, returned |-> FALSE,
               message |-> ""]
    /\ card_before = NoRows

InitMachine ==
    /\ machine = [water |-> 400, milk |-> 540, beans |-> 120, cups |-> 9,
                  money |-> 550]
    /\ last = [action |-> "none", input |-> "none", count |-> 0,
               before |-> [water |-> 400, milk |-> 540, beans |-> 120,
                           cups |-> 9, money |-> 550]]

Idle(p, s) ==
    /\ InitBank
    /\ InitMachine
    /\ regex = p
    /\ string = s
    /\ op = "none"
    /\ pc = "start"
    /\ core_regex = <<>>
    /\ i = 0
    /\ tried = {}
    /\ result = FALSE
    /\ line = <<>>
    /\ out = ""

InitFrom(P, S, E) ==
    \/ \E p \in P : \E s \in S : Idle(p, s)
    \/ \E e \in E : Idle(e[1], e[2])

InitCore == InitFrom(CorePatterns, CoreSubjects, CoreExamples)
InitSearch == InitFrom(SearchPatterns, SearchSubjects, SearchExamples)
Init == InitFrom(AllPatterns, AllSubjects, AllExamples)

\* return b
Return(b) ==
    /\ pc' = "done"
    /\ result' = b

\* The exception e leaves the function.
Raise(e) ==
    /\ pc' = e
    /\ UNCHANGED result

\* return regex_match_full(re, str), or regex_match_prefix(re, str)
ReturnCall(mode, re, str) ==
    IF match_raises(mode, re, str)
    THEN Raise("IndexError")
    ELSE Return(match_value(mode, re, str))

(***************************************************************************)
(* Direct calls of the atom matcher and of the two core matchers.          *)
(***************************************************************************)
CallMatch ==
    /\ pc = "start"
    /\ Len(regex) = 1 /\ Len(string) = 1
    /\ op' = "match"
    /\ Return(regex_match(regex[1], string[1]))
    /\ UNCHANGED <<regex, string, core_regex, i, tried, line, out, bank_vars, machine_vars>>

CallFull ==
    /\ pc = "start"
    /\ op' = "full"
    /\ ReturnCall("full", regex, string)
    /\ UNCHANGED <<regex, string, core_regex, i, tried, line, out, bank_vars, machine_vars>>

CallPrefix ==
    /\ pc = "start"
    /\ op' = "prefix"
    /\ ReturnCall("prefix", regex, string)
    /\ UNCHANGED <<regex, string, core_regex, i, tried, line, out, bank_vars, machine_vars>>

(***************************************************************************)
(* regex_search, step by step: the empty-pattern check, the dispatch on    *)
(* the anchors, and one step for every iteration of a scanning loop.       *)
(* tried collects the start offsets a core matcher was called at.          *)
(***************************************************************************)
SearchEmpty_not_string ==
    /\ pc = "start"
    /\ regex = <<>>
    /\ op' = "search"
    /\ Return(string = <<>>)
    /\ UNCHANGED <<regex, string, core_regex, i, tried, line, out, bank_vars, machine_vars>>

SearchEmpty ==
    /\ pc = "start"
    /\ regex = <<>>
    /\ op' = "search"
    /\ Return(TRUE)
    /\ UNCHANGED <<regex, string, core_regex, i, tried, line, out, bank_vars, machine_vars>>

SearchBoth_prefix ==
    /\ pc = "start"
    /\ regex # <<>>
    /\ startswith(regex, "^") /\ endswith(regex, "$")
    /\ op' = "search"
    /\ core_regex' = Inner(regex)
    /\ tried' = {0}
    /\ ReturnCall("prefix", core_regex', string)
    /\ UNCHANGED <<regex, string, i, line, out, bank_vars, machine_vars>>

SearchBoth ==
    /\ pc = "start"
    /\ regex # <<>>
    /\ startswith(regex, "^") /\ endswith(regex, "$")
    /\ op' = "search"
    /\ core_regex' = Inner(regex)
    /\ tried' = {0}
    /\ ReturnCall("full", core_regex', string)
    /\ UNCHANGED <<regex, string, i, line, out, bank_vars, machine_vars>>

SearchCaret_scan ==
    /\ pc = "start"
    /\ regex # <<>>
    /\ ~(startswith(regex, "^") /\ endswith(regex, "$"))
    /\ startswith(regex, "^")
    /\ op' = "search"
    /\ core_regex' = From(regex, 1)
    /\ pc' = "scan_prefix"
    /\ i' = 0
    /\ UNCHANGED <<regex, string, tried, result, line, out, bank_vars, machine_vars>>

\* regex.lstrip('^') in place of regex[1:]: every leading '^' is taken off.
RECURSIVE lstrip(_, _)
lstrip(s, c) == IF startswith(s, c) THEN lstrip(From(s, 1), c) ELSE s

SearchCaret_lstrip ==
    /\ pc = "start"
    /\ regex # <<>>
    /\ ~(startswith(regex, "^") /\ endswith(regex, "$"))
    /\ startswith(regex, "^")
    /\ op' = "search"
    /\ core_regex' = lstrip(regex, "^")
    /\ tried' = {0}
    /\ ReturnCall("prefix", core_regex', string)
    /\ UNCHANGED <<regex, string, i, line, out, bank_vars, machine_vars>>

SearchCaret ==
    /\ pc = "start"
    /\ regex # <<>>
    /\ ~(startswith(regex, "^") /\ endswith(regex, "$"))
    /\ startswith(regex, "^")
    /\ op' = "search"
    /\ core_regex' = From(regex, 1)
    /\ tried' = {0}
    /\ ReturnCall("prefix", core_regex', string)
    /\ UNCHANGED <<regex, string, i, line, out, bank_vars, machine_vars>>

SearchDollar ==
    /\ pc = "start"
    /\ regex # <<>>
    /\ ~startswith(regex, "^")
    /\ endswith(regex, "$")
    /\ op' = "search"
    /\ core_regex' = DropLast(regex)
    /\ pc' = "scan_full"
    /\ i' = 0
    /\ UNCHANGED <<regex, string, tried, result, line, out, bank_vars, machine_vars>>

\* for i in range(len(string) + 1), in the '$' branch
full_scan_range_short(s) == 0..(Len(s) - 1)

full_scan_range(s) == 0..Len(s)

ScanFull ==
    /\ pc = "scan_full"
    /\ IF i \in full_scan_range(string)
       THEN /\ tried' = tried \cup {i}
            /\ IF match_raises("full", core_regex, From(string, i))
               THEN Raise("IndexError") /\ UNCHANGED i
               ELSE IF regex_match_full(core_regex, From(string, i))
               THEN Return(TRUE) /\ UNCHANGED i
               ELSE i' = i + 1 /\ UNCHANGED <<pc, result>>
       ELSE Return(FALSE) /\ UNCHANGED <<i, tried>>
    /\ UNCHANGED <<regex, string, op, core_regex, line, out, bank_vars, machine_vars>>

SearchPlain ==
    /\ pc = "start"
    /\ regex # <<>>
    /\ ~startswith(regex, "^")
    /\ ~endswith(regex, "$")
    /\ op' = "search"
    /\ core_regex' = regex
    /\ pc' = "scan_prefix"
    /\ i' = 0
    /\ UNCHANGED <<regex, string, tried, result, line, out, bank_vars, machine_vars>>

\* for i in range(len(string) + 1), in the unanchored branch
prefix_scan_range_short(s) == 0..(Len(s) - 1)

\* range(1, len(string) + 1): the scan leaves out offset 0.
prefix_scan_range_from_one(s) == 1..Len(s)

prefix_scan_range(s) == 0..Len(s)

\* The scan gives up after the first offset that does not match.
ScanPrefix_first_only ==
    /\ pc = "scan_prefix"
    /\ IF i \in prefix_scan_range(string)
       THEN /\ tried' = tried \cup {i}
            /\ ReturnCall("prefix", core_regex, From(string, i))
            /\ UNCHANGED i
       ELSE Return(FALSE) /\ UNCHANGED <<i, tried>>
    /\ UNCHANGED <<regex, string, op, core_regex, line, out, bank_vars, machine_vars>>

ScanPrefix ==
    /\ pc = "scan_prefix"
    /\ IF i \in prefix_scan_range(string)
       THEN /\ tried' = tried \cup {i}
            /\ IF match_raises("prefix", core_regex, From(string, i))
               THEN Raise("IndexError") /\ UNCHANGED i
               ELSE IF regex_match_prefix(core_regex, From(string, i))
               THEN Return(TRUE) /\ UNCHANGED i
               ELSE i' = i + 1 /\ UNCHANGED <<pc, result>>
       ELSE Return(FALSE) /\ UNCHANGED <<i, tried>>
    /\ UNCHANGED <<regex, string, op, core_regex, line, out, bank_vars, machine_vars>>

Search ==
    \/ SearchEmpty
    \/ SearchBoth
    \/ SearchCaret
    \/ SearchDollar
    \/ ScanFull
    \/ SearchPlain
    \/ ScanPrefix

\* The patterns of SpecCore hold no anchor: the anchored branches of
\* regex_search cannot be taken there.
NextCore ==
    \/ CallMatch
    \/ CallFull
    \/ CallPrefix
    \/ SearchEmpty
    \/ SearchPlain
    \/ ScanPrefix

NextSearch == Search

Next ==
    \/ CallMatch
    \/ CallFull
    \/ CallPrefix
    \/ Search

SpecCore == InitCore /\ [][NextCore]_vars
SpecSearch == InitSearch /\ [][NextSearch]_vars
Spec == Init /\ [][Next]_vars

Done(o) == pc = "done" /\ op = o

(***************************************************************************)
(* The grammar the claims speak of: atoms are unescaped literals and '.',  *)
(* each optionally followed by one quantifier.                             *)
(***************************************************************************)
IsAtom(c) == c \notin Quantifiers \cup {BS, "^", "$"}

RECURSIVE WellFormed(_)
WellFormed(p) ==
    \/ p = <<>>
    \/ /\ IsAtom(p[1])
       /\ IF Len(p) >= 2 /\ p[2] \in Quantifiers
          THEN WellFormed(From(p, 2))
          ELSE WellFormed(From(p, 1))

\* The atom x accepts the subject character c.
Accepts(x, c) == x = "." \/ x = c

\* The first k characters of s are all accepted by the atom x.
Run(x, s, k) == k <= Len(s) /\ \A j \in 1..k : Accepts(x, s[j])

\* The block lengths a quantifier allows in a subject of length n
\* ("1" stands for an atom without a quantifier).
BlockSizes(q, n) ==
    CASE q = "?" -> {0, 1}
      [] q = "*" -> 0..n
      [] q = "+" -> 1..n
      [] OTHER -> {1}

\* s can be cut into consecutive blocks, one per atom of the well-formed
\* pattern p, each block of a length its quantifier allows and made of
\* characters its atom accepts.
RECURSIVE BlockMatch(_, _)
BlockMatch(p, s) ==
    IF p = <<>> THEN s = <<>>
    ELSE LET quantified == Len(p) >= 2 /\ p[2] \in Quantifiers
             q == IF quantified THEN p[2] ELSE "1"
             rest == From(p, IF quantified THEN 2 ELSE 1)
         IN \E k \in BlockSizes(q, Len(s)) :
                Run(p[1], s, k) /\ BlockMatch(rest, From(s, k))

Unanchored(p) == p # <<>> /\ ~startswith(p, "^") /\ ~endswith(p, "$")

(***************************************************************************)
(* C1: for a well-formed pattern, regex_match_full returns true exactly    *)
(* when the subject can be cut into blocks, one per atom, as the           *)
(* quantifiers allow; and regex_search('a*ab', 'aaab') returns true.       *)
(***************************************************************************)
C1_FullIsBlockMatch ==
    /\ (Done("full") /\ WellFormed(regex))
           => (result <=> BlockMatch(regex, string))
    /\ (Done("search") /\ regex = <<"a", "*", "a", "b">>
                       /\ string = <<"a", "a", "a", "b">>)
           => result

C1_Witness ==
    /\ Done("full")
    /\ regex = <<"a", "*", "a", "b">>
    /\ string = <<"a", "a", "a", "b">>
    /\ result

(***************************************************************************)
(* C2: for a non-empty pattern without a leading '^' and without a         *)
(* trailing '$', regex_search returns true exactly when regex_match_prefix *)
(* accepts the suffix of the subject at some offset 0..len(subject), the   *)
(* empty suffix included.                                                  *)
(***************************************************************************)
C2_UnanchoredScan ==
    (Done("search") /\ Unanchored(regex))
        => (result <=> \E k \in 0..Len(string) :
                           regex_match_prefix(regex, From(string, k)))

C2_Witness ==
    /\ Done("search")
    /\ Unanchored(regex)
    /\ result
    /\ i = 2
    /\ ~regex_match_prefix(regex, string)

(***************************************************************************)
(* C3: for a pattern '^' inner '$', regex_search returns                   *)
(* regex_match_full(inner, subject): the inner pattern has to match the    *)
(* whole subject, from its first to its last character.                    *)
(***************************************************************************)
C3_BothAnchors ==
    (Done("search") /\ startswith(regex, "^") /\ endswith(regex, "$")
                    /\ Len(regex) >= 2)
        => /\ core_regex = Inner(regex)
           /\ result <=> regex_match_full(Inner(regex), string)
           /\ WellFormed(Inner(regex))
                  => (result <=> BlockMatch(Inner(regex), string))

C3_Witness ==
    /\ Done("search")
    /\ regex = <<"^", "a", "b", "c", "$">>
    /\ string = <<"a", "b", "c", "d">>
    /\ ~result

(***************************************************************************)
(* C4: for a pattern with a leading '^' and no trailing '$', regex_search  *)
(* returns regex_match_prefix(inner, subject) and calls the matcher at     *)
(* offset 0 only; the pattern '^' matches every subject.                   *)
(***************************************************************************)
C4_CaretOnly ==
    (op = "search" /\ startswith(regex, "^") /\ ~endswith(regex, "$"))
        => /\ pc = "done"
           /\ tried = {0}
           /\ core_regex = From(regex, 1)
           /\ result <=> regex_match_prefix(From(regex, 1), string)
           /\ regex = <<"^">> => result

C4_Witness ==
    /\ Done("search")
    /\ regex = <<"^", "b">>
    /\ string = <<"a", "b">>
    /\ ~result

(***************************************************************************)
(* C5: for a pattern with a trailing '$' and no leading '^', regex_search  *)
(* returns true exactly when regex_match_full accepts, for the pattern     *)
(* without its '$', the suffix of the subject at some offset               *)
(* 0..len(subject).                                                        *)
(***************************************************************************)
C5_DollarOnly ==
    (Done("search") /\ ~startswith(regex, "^") /\ endswith(regex, "$"))
        => /\ core_regex = DropLast(regex)
           /\ result <=> \E k \in 0..Len(string) :
                             regex_match_full(DropLast(regex), From(string, k))
           /\ WellFormed(DropLast(regex))
                  => (result <=> \E k \in 0..Len(string) :
                                     BlockMatch(DropLast(regex), From(string, k)))

C5_Witness ==
    /\ Done("search")
    /\ regex = <<"c", "$">>
    /\ string = <<"a", "b", "c">>
    /\ result
    /\ i = 2

(***************************************************************************)
(* C6: regex_search with the empty pattern returns true for every subject, *)
(* at once: no core matcher is called and no scan is started.              *)
(***************************************************************************)
C6_EmptyPattern ==
    (op = "search" /\ regex = <<>>)
        => /\ pc = "done"
           /\ result
           /\ tried = {}
           /\ core_regex = <<>>

C6_Witness ==
    /\ Done("search")
    /\ regex = <<>>
    /\ string # <<>>
    /\ result

\* p holds an escape pair at k, k + 1 and plain literals everywhere else.
OneEscapeAt(p, k) ==
    /\ k \in 1..(Len(p) - 1)
    /\ p[k] = BS
    /\ \A j \in 1..Len(p) : j \notin {k, k + 1} => p[j] \in Literals

Without(p, k) == SubSeq(p, 1, k - 1) \o SubSeq(p, k + 1, Len(p))

Contains(s, t) ==
    \E off \in 0..(Len(s) - Len(t)) : SubSeq(s, off + 1, off + Len(t)) = t

(***************************************************************************)
(* C7: a backslash followed by a character c matches exactly one subject   *)
(* character equal to c, for every c and wherever the pair stands: for a   *)
(* pattern of plain literals with one escape pair in it, regex_search      *)
(* returns true exactly when the subject contains the pattern's text with  *)
(* the backslash taken out.                                                *)
(***************************************************************************)
C7_EscapedIsLiteral ==
    \A k \in 1..Len(regex) :
        (Done("search") /\ OneEscapeAt(regex, k))
            => (result <=> Contains(string, Without(regex, k)))

RECURSIVE TrailingBackslashes(_)
TrailingBackslashes(p) ==
    IF p # <<>> /\ p[Len(p)] = BS
    THEN 1 + TrailingBackslashes(DropLast(p))
    ELSE 0

EndsInLoneBackslash(p) == TrailingBackslashes(p) % 2 = 1

(***************************************************************************)
(* C8: a pattern that ends in a lone backslash (an odd number of           *)
(* backslashes at its end) never matches: regex_search returns false for   *)
(* every subject.                                                          *)
(***************************************************************************)
C8_LoneBackslashNeverMatches ==
    (Done("search") /\ EndsInLoneBackslash(regex)) => ~result

OnlyAtoms(p) == \A j \in 1..Len(p) : IsAtom(p[j])

Agree(p, s) == Len(p) = Len(s) /\ \A j \in 1..Len(p) : Accepts(p[j], s[j])

(***************************************************************************)
(* C9: regex_match(a, c) is true exactly when a is '.' or a equals c, and  *)
(* an atom without a quantifier, '.' included, consumes exactly one        *)
(* character: a pattern of such atoms matches in full exactly the subjects *)
(* of its own length that agree with it position by position, and is found *)
(* by regex_search exactly where such a window of the subject exists.      *)
(***************************************************************************)
C9_Wildcard ==
    /\ Done("match") => (result <=> (regex[1] = "." \/ regex[1] = string[1]))
    /\ (Done("full") /\ OnlyAtoms(regex)) => (result <=> Agree(regex, string))
    /\ (Done("search") /\ OnlyAtoms(regex) /\ regex # <<>>)
           => (result <=> \E off \in 0..(Len(string) - Len(regex)) :
                   Agree(regex, SubSeq(string, off + 1, off + Len(regex))))

C9_Witness ==
    /\ Done("search")
    /\ regex = <<"a", ".", "c">>
    /\ string = <<"a", "c">>
    /\ ~result

(***************************************************************************)
(* C10: for a one-character atom x, regex_match_full(x '*' r, s) is true   *)
(* exactly when for some k >= 0 the first k characters of s each match x   *)
(* and regex_match_full(r, s[k:]) is true.                                 *)
(***************************************************************************)
C10_StarZeroOrMore ==
    (Done("full") /\ Len(regex) >= 2 /\ regex[1] # BS /\ regex[2] = "*")
        => (result <=> \E k \in 0..Len(string) :
                /\ Run(regex[1], string, k)
                /\ regex_match_full(From(regex, 2), From(string, k)))

C10_Witness ==
    /\ Done("full")
    /\ regex = <<"a", "*">>
    /\ string = <<"a", "a", "a", "a">>
    /\ result

StartsWithQuantified(p, q) == Len(p) >= 2 /\ p[1] # BS /\ p[2] = q

(***************************************************************************)
(* C11: for a one-character atom x, regex_match_full(x '+' r, s) is true   *)
(* exactly when for some k >= 1 the first k characters of s each match x   *)
(* and regex_match_full(r, s[k:]) is true, and likewise for                *)
(* regex_match_prefix; 'a+' never matches the empty subject.               *)
(***************************************************************************)
C11_PlusOneOrMore ==
    /\ (Done("full") /\ StartsWithQuantified(regex, "+"))
           => (result <=> \E k \in 1..Len(string) :
                   /\ Run(regex[1], string, k)
                   /\ regex_match_full(From(regex, 2), From(string, k)))
    /\ (Done("prefix") /\ StartsWithQuantified(regex, "+"))
           => (result <=> \E k \in 1..Len(string) :
                   /\ Run(regex[1], string, k)
                   /\ regex_match_prefix(From(regex, 2), From(string, k)))
    /\ (pc = "done" /\ regex = <<"a", "+">> /\ string = <<>>) => ~result

C11_Witness ==
    /\ Done("search")
    /\ regex = <<"a", "+">>
    /\ string = <<>>
    /\ ~result

QuantExamples ==
    { <<(<<"^", "a", "?", "$">>), (<<"a", "a">>)>>,
      <<(<<"^", "a", "?", "$">>), (<<"a">>)>> }

InitQuant ==
    InitFrom(CorePatterns, CoreSubjects,
             CoreExamples \cup SearchExamples \cup QuantExamples)

SpecQuant == InitQuant /\ [][Next]_vars

(***************************************************************************)
(* C12: for a one-character atom x, regex_match_full(x '?' r, s) is true   *)
(* exactly when regex_match_full(r, s) is true, or s is non-empty, x       *)
(* matches s[0] and regex_match_full(r, s[1:]) is true, and likewise for   *)
(* regex_match_prefix; '^a?$' rejects 'aa'.                                *)
(***************************************************************************)
C12_QuestionZeroOrOne ==
    /\ (Done("full") /\ StartsWithQuantified(regex, "?"))
           => (result <=>
                   \/ regex_match_full(From(regex, 2), string)
                   \/ /\ string # <<>>
                      /\ Accepts(regex[1], string[1])
                      /\ regex_match_full(From(regex, 2), From(string, 1)))
    /\ (Done("prefix") /\ StartsWithQuantified(regex, "?"))
           => (result <=>
                   \/ regex_match_prefix(From(regex, 2), string)
                   \/ /\ string # <<>>
                      /\ Accepts(regex[1], string[1])
                      /\ regex_match_prefix(From(regex, 2), From(string, 1)))
    /\ (Done("search") /\ regex = <<"^", "a", "?", "$">>)
           => (result <=> Len(string) <= 1 /\ \A j \in 1..Len(string) : string[j] = "a")

C12_Witness ==
    /\ Done("search")
    /\ regex = <<"^", "a", "?", "$">>
    /\ string = <<"a", "a">>
    /\ ~result

AllowedCount(q, n) ==
    CASE q = "*" -> n >= 0
      [] q = "+" -> n >= 1
      [] q = "?" -> n \in {0, 1}

(***************************************************************************)
(* C13: a quantifier binds to the one atom before it: for literals x and   *)
(* y, regex_match_full(x y q, s) is true exactly when s is x followed by   *)
(* a run of y whose length the quantifier q allows (any for '*', at least  *)
(* one for '+', at most one for '?'); x y is never repeated as a group.    *)
(***************************************************************************)
C13_SingleAtomScope ==
    (Done("full") /\ Len(regex) = 3 /\ regex[1] \in Literals
                  /\ regex[2] \in Literals /\ regex[3] \in Quantifiers)
        => (result <=>
                /\ Len(string) >= 1
                /\ string[1] = regex[1]
                /\ \A j \in 2..Len(string) : string[j] = regex[2]
                /\ AllowedCount(regex[3], Len(string) - 1))

C13_Witness ==
    /\ Done("full")
    /\ regex = <<"a", "b", "*">>
    /\ string = <<"a", "b", "a", "b">>
    /\ ~result

OnlyLiterals(p) == p # <<>> /\ \A j \in 1..Len(p) : p[j] \in Literals

(***************************************************************************)
(* C14: for a non-empty pattern of ordinary literal characters only,       *)
(* regex_search returns true exactly when the pattern occurs in the        *)
(* subject as a contiguous substring, at any position.                     *)
(***************************************************************************)
C14_LiteralSubstring ==
    (Done("search") /\ OnlyLiterals(regex))
        => (result <=> Contains(string, regex))

C14_Witness ==
    /\ Done("search")
    /\ regex = <<"b">>
    /\ string = <<"a", "a", "a", "b", "a", "a", "a">>
    /\ result
    /\ i = 3

(***************************************************************************)
(* C15: regex_match_prefix(p, s) is true exactly when regex_match_full     *)
(* accepts p on some prefix s[:k] of the subject, k in 0..len(s).          *)
(***************************************************************************)
C15_PrefixIsFullOnSomePrefix ==
    Done("prefix")
        => (result <=> \E k \in 0..Len(string) :
                           regex_match_full(regex, SubSeq(string, 1, k)))

C15_Witness ==
    /\ Done("prefix")
    /\ result
    /\ regex # <<>>
    /\ ~regex_match_full(regex, string)
    /\ regex_match_full(regex, SubSeq(string, 1, 1))

(***************************************************************************)
(* C16: for every pattern and subject, malformed patterns included, no     *)
(* call raises an exception: no read of regex[0], regex[1] or string[0] is *)
(* out of range, regex_search can take a step from every state in which it *)
(* has not returned, its scans stay within offsets 0..len(subject), and    *)
(* what is returned is a boolean.                                          *)
(***************************************************************************)
C16_NeverFaults ==
    /\ pc \notin {"IndexError", "ValueError"}
    /\ pc = "done" => result \in BOOLEAN
    /\ pc = "start" => ENABLED Search
    /\ (op = "search" /\ pc # "done")
           => /\ pc \in {"scan_full", "scan_prefix"}
              /\ i \in 0..(Len(string) + 1)
              /\ ENABLED Search

\* A quantifier at the start, several quantifiers in a row and a lone
\* trailing backslash.
C16_Witness ==
    /\ Done("search")
    /\ regex = <<"*", "+", BS>>
    /\ string = <<"*", BS>>
    /\ result \in BOOLEAN

\* The call trees are examined on patterns and subjects of their own lengths.
MaxCallPat == 3
MaxCallStr == 3

CallPatterns == SeqsUpTo(Literals \cup {"."} \cup Quantifiers, MaxCallPat)
CallSubjects == SeqsUpTo(Literals, MaxCallStr)

InitCalls == InitFrom(CallPatterns, CallSubjects, CoreExamples)

SpecCalls == InitCalls /\ [][NextCore]_vars

Measure(re, str) == Len(re) + Len(str)

\* Every call made while (re, str) is evaluated has a smaller measure than
\* the call that makes it.
RECURSIVE CallsDecrease(_, _, _)
CallsDecrease(mode, re, str) ==
    LET calls == direct_calls(mode, re, str)
    IN \A n \in 1..Len(calls) :
           /\ Measure(calls[n][1], calls[n][2]) < Measure(re, str)
           /\ CallsDecrease(mode, calls[n][1], calls[n][2])

MaxOf(S) == IF S = {} THEN 0 ELSE CHOOSE m \in S : \A n \in S : n <= m

\* The number of frames of the matcher on the stack at the deepest point.
RECURSIVE CallDepth(_, _, _)
CallDepth(mode, re, str) ==
    LET calls == direct_calls(mode, re, str)
    IN 1 + MaxOf({CallDepth(mode, calls[n][1], calls[n][2]) :
                      n \in 1..Len(calls)})

(***************************************************************************)
(* C17: every recursive call of regex_match_full and regex_match_prefix is *)
(* made with a strictly smaller len(pattern) + len(subject), the recursion *)
(* is never deeper than len(pattern) + len(subject) + 1, and a scan of     *)
(* regex_search has tried exactly the offsets below i, at most             *)
(* len(subject) + 1 of them.                                               *)
(***************************************************************************)
C17_RecursionBounded ==
    /\ (pc = "done" /\ op \in {"full", "prefix"})
           => /\ CallsDecrease(op, regex, string)
              /\ CallDepth(op, regex, string) <= Measure(regex, string) + 1
    /\ (op = "search" /\ pc \in {"scan_full", "scan_prefix"})
           => /\ i <= Len(string) + 1
              /\ tried = 0..(i - 1)
              /\ ENABLED Search
    /\ Done("search") => tried \subseteq 0..Len(string)

C17_Witness ==
    /\ Done("full")
    /\ regex = <<"a", "*", "a", "b">>
    /\ string = <<"a", "a", "a", "b">>
    /\ CallDepth("full", regex, string) = 5
    /\ Len(direct_calls("full", regex, string)) = 3

(***************************************************************************)
(* main: read a line, split it on '|' into the pattern and the text, call  *)
(* regex_search and print str(result); a ValueError (the split does not    *)
(* give exactly two parts) or an IndexError prints 'False'.                *)
(***************************************************************************)
MaxLine == 5

LineChars == {"a", "*", "^", "$", "|"}
Lines == SeqsUpTo(LineChars, MaxLine)

\* str.split(sep, 1): at most one split.
split_once(l, sep) ==
    IF \E j \in 1..Len(l) : l[j] = sep
    THEN LET k == CHOOSE j \in 1..Len(l) :
                      l[j] = sep /\ \A h \in 1..(j - 1) : l[h] # sep
         IN <<SubSeq(l, 1, k - 1), SubSeq(l, k + 1, Len(l))>>
    ELSE <<l>>

\* str.split(sep): the parts between the separators, at least one part.
RECURSIVE split(_, _)
split(l, sep) ==
    IF \E j \in 1..Len(l) : l[j] = sep
    THEN LET k == CHOOSE j \in 1..Len(l) :
                      l[j] = sep /\ \A h \in 1..(j - 1) : l[h] # sep
         IN <<SubSeq(l, 1, k - 1)>> \o split(SubSeq(l, k + 1, Len(l)), sep)
    ELSE <<l>>

\* str(result) of a bool
str(b) == IF b THEN "True" ELSE "False"

InitMain ==
    \E l \in Lines :
        /\ InitBank
        /\ InitMachine
        /\ line = l
        /\ out = ""
        /\ regex = <<>>
        /\ string = <<>>
        /\ op = "main"
        /\ pc = "input"
        /\ core_regex = <<>>
        /\ i = 0
        /\ tried = {}
        /\ result = FALSE

\* regex, text = input().split("|")
MainSplit ==
    /\ pc = "input"
    /\ LET parts == split(line, "|")
       IN IF Len(parts) = 2
          THEN /\ regex' = parts[1]
               /\ string' = parts[2]
               /\ pc' = "start"
          ELSE /\ pc' = "ValueError"
               /\ UNCHANGED <<regex, string>>
    /\ UNCHANGED <<op, core_regex, i, tried, result, line, out, bank_vars, machine_vars>>

\* print(str(result))
MainPrint ==
    /\ pc = "done"
    /\ op = "search"
    /\ out' = str(result)
    /\ pc' = "printed"
    /\ UNCHANGED <<regex, string, op, core_regex, i, tried, result, line>>
    /\ UNCHANGED <<bank_vars, machine_vars>>

\* except (ValueError, IndexError): print(str(False))
MainExcept ==
    /\ pc \in {"ValueError", "IndexError"}
    /\ out' = str(FALSE)
    /\ pc' = "printed"
    /\ UNCHANGED <<regex, string, op, core_regex, i, tried, result, line>>
    /\ UNCHANGED <<bank_vars, machine_vars>>

NextMain ==
    \/ MainSplit
    \/ Search
    \/ MainPrint
    \/ MainExcept

SpecMain == InitMain /\ [][NextMain]_vars

Bars(l) == {j \in 1..Len(l) : l[j] = "|"}

\* What regex_search returns, by the cases of its anchors.
SearchValue(p, s) ==
    IF p = <<>> THEN TRUE
    ELSE IF startswith(p, "^") /\ endswith(p, "$")
    THEN regex_match_full(Inner(p), s)
    ELSE IF startswith(p, "^")
    THEN regex_match_prefix(From(p, 1), s)
    ELSE IF endswith(p, "$")
    THEN \E k \in 0..Len(s) : regex_match_full(DropLast(p), From(s, k))
    ELSE \E k \in 0..Len(s) : regex_match_prefix(p, From(s, k))

(***************************************************************************)
(* C19: main prints 'False' when the line does not hold exactly one '|',   *)
(* and otherwise the text form of regex_search(pattern, text) for the part *)
(* before and the part after the '|'; no exception leaves main.            *)
(***************************************************************************)
C19_MainPrints ==
    /\ pc = "printed"
           => IF Cardinality(Bars(line)) = 1
              THEN LET k == CHOOSE j \in Bars(line) : TRUE
                   IN out = str(SearchValue(SubSeq(line, 1, k - 1),
                                            SubSeq(line, k + 1, Len(line))))
              ELSE out = "False"
    /\ pc # "printed" => out = "" /\ ENABLED NextMain
    /\ pc \in {"ValueError", "IndexError"} => ENABLED MainExcept

C19_Witness ==
    /\ pc = "printed"
    /\ line = <<"a", "|", "a", "|", "a">>
    /\ out = "False"

(***************************************************************************)
(* Calls with the characters of the constructs the grammar does not have.  *)
(***************************************************************************)
MaxLitPat == 2
MaxLitStr == 2

Unsupported == {"[", "]", "(", ")", "{", "}", "|"}
LitPatterns == SeqsUpTo(Unsupported \cup {"a", "*"}, MaxLitPat)
LitSubjects == SeqsUpTo(Unsupported \cup {"a"}, MaxLitStr)
LitExamples ==
    { <<(<<"a", "|", "b">>), (<<"a">>)>>,
      <<(<<"a", "|", "b">>), (<<"b">>)>>,
      <<(<<"a", "|", "b">>), (<<"x", "a", "|", "b">>)>>,
      <<(<<"[", "a", "b", "]">>), (<<"a">>)>>,
      <<(<<"[", "a", "b", "]">>), (<<"[", "a", "b", "]">>)>>,
      <<(<<"(", "a", ")">>), (<<"a">>)>>,
      <<(<<"(", "a", ")", "*">>), (<<"(", "a", ")", "(", "a", ")">>)>>,
      <<(<<"(", "a", ")", "*">>), (<<"a", "a">>)>>,
      <<(<<"a", "{", "2", "}">>), (<<"a", "a">>)>>,
      <<(<<"a", "{", "2", "}">>), (<<"a", "{", "2", "}">>)>> }

InitLit == InitFrom(LitPatterns, LitSubjects, LitExamples)

SpecLit == InitLit /\ [][NextCore]_vars

OnlyPlain(p) ==
    p # <<>> /\ \A j \in 1..Len(p) : p[j] \notin Quantifiers \cup {".", BS, "^", "$"}

(***************************************************************************)
(* C20: '[', ']', '(', ')', '{', '}' and '|' are ordinary literals: as an  *)
(* atom each accepts only the identical character, a pattern of plain      *)
(* characters is found exactly where it occurs as a substring, and a       *)
(* quantifier after one of them repeats that one character only.           *)
(***************************************************************************)
C20_UnsupportedAreLiterals ==
    /\ (Done("match") /\ regex[1] \in Unsupported)
           => (result <=> regex[1] = string[1])
    /\ (Done("search") /\ OnlyPlain(regex))
           => (result <=> Contains(string, regex))
    /\ (Done("search") /\ regex # <<>> /\ WellFormed(regex))
           => (result <=> \E a \in 0..Len(string) : \E b \in a..Len(string) :
                              BlockMatch(regex, SubSeq(string, a + 1, b)))

C20_Witness ==
    /\ Done("search")
    /\ regex = <<"a", "|", "b">>
    /\ string = <<"a">>
    /\ ~result

(***************************************************************************)
(* C22: on the empty pattern regex_match_full returns true exactly when    *)
(* the subject is empty too, and regex_match_prefix returns true for every *)
(* subject; neither reads a character of the subject.                      *)
(***************************************************************************)
C22_EmptyPatternBase ==
    /\ (op = "full" /\ regex = <<>> /\ pc # "start")
           => (pc = "done" /\ (result <=> string = <<>>))
    /\ (op = "prefix" /\ regex = <<>> /\ pc # "start")
           => (pc = "done" /\ result)

C22_Witness ==
    /\ Done("full")
    /\ regex = <<>>
    /\ string = <<"a", "b">>
    /\ ~result
    /\ regex_match_prefix(regex, string)

(***************************************************************************)
(* Calls with escape pairs in front of quantifiers.                        *)
(***************************************************************************)
MaxQuotePat == 3
MaxQuoteStr == 3

QuotePatterns == SeqsUpTo({"a", "*", "?", BS}, MaxQuotePat)
QuoteSubjects == SeqsUpTo({"a", "*", BS}, MaxQuoteStr)
QuoteExamples ==
    { <<(<<BS, "a", "+">>), (<<"a", "+">>)>>,
      <<(<<BS, "a", "+">>), (<<"a", "a">>)>>,
      <<(<<"a", BS, ".", "b">>), (<<"a", ".", "b">>)>> }

InitQuote == InitFrom(QuotePatterns, QuoteSubjects, QuoteExamples)

SpecQuote == InitQuote /\ [][NextCore]_vars

StartsWithEscape(p) == Len(p) >= 2 /\ p[1] = BS

(***************************************************************************)
(* C23: when the pattern starts with a backslash and has a second          *)
(* character c, a core matcher returns true exactly when the subject       *)
(* starts with c and the matcher accepts pattern[2:] on subject[1:]; it    *)
(* makes that one recursive call and no other, and none when the subject   *)
(* is empty or starts with another character.  A quantifier after the pair *)
(* is not applied to it: backslash c q accepts in full the two characters  *)
(* c q and nothing else.                                                   *)
(***************************************************************************)
C23_EscapeStep ==
    /\ (pc = "done" /\ op \in {"full", "prefix"} /\ StartsWithEscape(regex))
           => LET fits == string # <<>> /\ string[1] = regex[2]
              IN /\ result <=> (fits /\ match_value(op, From(regex, 2),
                                                     From(string, 1)))
                 /\ direct_calls(op, regex, string) =
                        IF fits THEN <<(<<From(regex, 2), From(string, 1)>>)>>
                                ELSE <<>>
    /\ (Done("full") /\ Len(regex) = 3 /\ regex[1] = BS
                     /\ regex[3] \in Quantifiers)
           => (result <=> string = <<regex[2], regex[3]>>)
    /\ (Done("prefix") /\ Len(regex) = 3 /\ regex[1] = BS
                       /\ regex[3] \in Quantifiers)
           => (result <=> (Len(string) >= 2 /\ string[1] = regex[2]
                                           /\ string[2] = regex[3]))

C23_Witness ==
    /\ Done("full")
    /\ regex = <<BS, "a", "*">>
    /\ string = <<"a", "*">>
    /\ result
    /\ ~regex_match_full(<<"a", "*">>, string)

\* The places of the call c in the sequence of calls.
Places(calls, c) == {n \in 1..Len(calls) : calls[n] = c}

(***************************************************************************)
(* C24: in the quantified-atom step the skip call (pattern[2:] on the      *)
(* unchanged subject) is the first call for '?' and '*' and is the only    *)
(* call when it returns true, and it is never made for '+'; the            *)
(* end-repetition call (pattern[2:] on subject[1:]) is made only when the  *)
(* subject starts with a character the atom accepts and, for '?' and '*',  *)
(* skip has returned false; the continue-repetition call (the same pattern *)
(* on subject[1:]) is made only for '*' and '+', after the end-repetition  *)
(* call and only when that call returned false.                            *)
(***************************************************************************)
C24_BranchOrder ==
    (pc = "done" /\ op \in {"full", "prefix"} /\ Len(regex) >= 2
                 /\ regex[1] # BS /\ regex[2] \in Quantifiers)
        => LET calls == direct_calls(op, regex, string)
               meta == regex[2]
               skip == <<From(regex, 2), string>>
               once == <<From(regex, 2), From(string, 1)>>
               more == <<regex, From(string, 1)>>
               fits == string # <<>> /\ Accepts(regex[1], string[1])
               skips == Places(calls, skip)
               onces == IF string = <<>> THEN {} ELSE Places(calls, once)
               mores == IF string = <<>> THEN {} ELSE Places(calls, more)
           IN /\ meta \in {"?", "*"}
                     => /\ skips = {1}
                        /\ match_value(op, skip[1], skip[2]) => calls = <<skip>>
              /\ meta = "+" => skips = {}
              /\ onces # {}
                     => /\ fits
                        /\ meta \in {"?", "*"} => ~match_value(op, skip[1], skip[2])
              /\ mores # {}
                     => /\ meta \in {"*", "+"}
                        /\ onces # {}
                        /\ ~match_value(op, once[1], once[2])
                        /\ \A n \in onces : \A m \in mores : n < m
              /\ (fits /\ ~(meta \in {"?", "*"} /\ match_value(op, skip[1], skip[2])))
                     => /\ onces # {}
                        /\ (meta \in {"*", "+"} /\ ~match_value(op, once[1], once[2]))
                               => mores # {}
              /\ Len(calls) = Cardinality(skips \cup onces \cup mores)
              /\ result <=> \E n \in 1..Len(calls) :
                                match_value(op, calls[n][1], calls[n][2])

C24_Witness ==
    /\ Done("prefix")
    /\ regex = <<"a", "*", "b">>
    /\ string = <<"a", "a", "b">>
    /\ direct_calls("prefix", regex, string) =
           << <<(<<"b">>), (<<"a", "a", "b">>)>>,
              <<(<<"b">>), (<<"a", "b">>)>>,
              <<(<<"a", "*", "b">>), (<<"a", "b">>)>> >>
    /\ result

(***************************************************************************)
(* The repetition counts a quantified-atom step explores.  For a pattern   *)
(* x q r the rest r is tried after 0 repetitions of x by the skip call,    *)
(* after 1 by the end-repetition call, and after 1 + k by the              *)
(* continue-repetition call wherever that call tries it after k.           *)
(* RepetitionsTried gives these counts in the order of the calls.          *)
(***************************************************************************)
RECURSIVE RepetitionsTried(_, _, _)
RECURSIVE TriedFrom(_, _, _, _)
TriedFrom(mode, re, subject, n) ==
    LET calls == direct_calls(mode, re, subject)
    IN IF n > Len(calls) THEN <<>>
       ELSE LET call == calls[n]
                here == IF call[1] = re
                        THEN LET deeper == RepetitionsTried(mode, re, call[2])
                             IN [k \in 1..Len(deeper) |-> deeper[k] + 1]
                        ELSE IF call[2] = subject THEN <<0>>
                        ELSE <<1>>
            IN here \o TriedFrom(mode, re, subject, n + 1)

RepetitionsTried(mode, re, subject) == TriedFrom(mode, re, subject, 1)

Repeating(p) == Len(p) >= 2 /\ p[1] # BS /\ p[2] \in {"*", "+"}

(***************************************************************************)
(* C25 as stated: for an atom quantified by '*' or '+' the matcher         *)
(* explores more repetitions before fewer: the counts it tries never rise. *)
(***************************************************************************)
C25_GreedyLeaning ==
    (Done("full") /\ Repeating(regex))
        => LET counts == RepetitionsTried("full", regex, string)
           IN \A n \in 1..Len(counts) : \A m \in n..Len(counts) :
                  counts[n] >= counts[m]

(***************************************************************************)
(* C25 amended: for an atom quantified by '*' or '+' the matcher explores  *)
(* fewer repetitions before more: the counts it tries never fall, and they *)
(* start at 0 for '*' and at 1 for '+'.                                    *)
(***************************************************************************)
C25_FewerFirst ==
    (pc = "done" /\ op \in {"full", "prefix"} /\ Repeating(regex))
        => LET counts == RepetitionsTried(op, regex, string)
           IN /\ \A n \in 1..Len(counts) : \A m \in n..Len(counts) :
                     counts[n] <= counts[m]
              /\ (regex[2] = "*") => (counts # <<>> /\ counts[1] = 0)
              /\ (regex[2] = "+" /\ counts # <<>>) => counts[1] = 1

C25_Witness ==
    /\ Done("full")
    /\ regex = <<"a", "*", "b">>
    /\ string = <<"a", "a", "b">>
    /\ RepetitionsTried("full", regex, string) = <<0, 1, 1, 2>>
    /\ result

(***************************************************************************)
(* Calls with '^' and '$' at every position of the pattern and in the      *)
(* subject.                                                                *)
(***************************************************************************)
MaxMarkPat == 4
MaxMarkStr == 3

MarkPatterns == SeqsUpTo({"a", "^", "$", "*"}, MaxMarkPat)
MarkSubjects == SeqsUpTo({"a", "^", "$"}, MaxMarkStr)

InitMark == InitFrom(MarkPatterns, MarkSubjects, SearchExamples)

SpecMark == InitMark /\ [][Next]_vars

\* The pattern without one leading '^' and without one trailing '$'.
Stripped(p) ==
    LET q == IF startswith(p, "^") THEN From(p, 1) ELSE p
    IN IF endswith(p, "$") THEN DropLast(q) ELSE q

\* p is made of characters that are no quantifier and no backslash, each
\* optionally followed by one quantifier; '^' and '$' count as characters.
RECURSIVE CharsAndQuantifiers(_)
CharsAndQuantifiers(p) ==
    \/ p = <<>>
    \/ /\ p[1] \notin Quantifiers \cup {BS}
       /\ IF Len(p) >= 2 /\ p[2] \in Quantifiers
          THEN CharsAndQuantifiers(From(p, 2))
          ELSE CharsAndQuantifiers(From(p, 1))

(***************************************************************************)
(* C26: regex_search takes off one leading '^' and one trailing '$' and no *)
(* more, and the core matchers read every '^' and '$' left in the pattern  *)
(* as an ordinary character that accepts only itself: the subject, its     *)
(* prefix, its suffix or a piece of it, as the two anchors say, has to be  *)
(* cut into blocks of the characters of the stripped pattern, '^' and '$'  *)
(* among them.                                                             *)
(***************************************************************************)
C26_AnchorsOnlyAtEnds ==
    /\ (op = "search" /\ pc # "start" /\ regex # <<>>)
           => core_regex = Stripped(regex)
    /\ (Done("full") /\ CharsAndQuantifiers(regex))
           => (result <=> BlockMatch(regex, string))
    /\ (Done("search") /\ regex # <<>> /\ CharsAndQuantifiers(Stripped(regex)))
           => LET core == Stripped(regex)
                  starts == IF startswith(regex, "^") THEN {0} ELSE 0..Len(string)
                  ends(a) == IF endswith(regex, "$") THEN {Len(string)}
                                                     ELSE a..Len(string)
              IN result <=> \E a \in starts : \E b \in ends(a) :
                                BlockMatch(core, SubSeq(string, a + 1, b))

C26_Witness ==
    /\ Done("search")
    /\ regex = <<"^", "^", "a", "$">>
    /\ string = <<"^", "a">>
    /\ core_regex = <<"^", "a">>
    /\ result

\* The call with the pattern re takes the quantified-atom step with a
\* quantifier character as its atom.
TakesQuantifierAsAtom(re) ==
    /\ re # <<>>
    /\ ~(re[1] = BS /\ has_two(re))
    /\ has_second(re) /\ is_quantifier(re[2])
    /\ re[1] \in Quantifiers

\* Some call made while (re, subject) is evaluated, that call itself
\* included, takes a quantifier character as the atom of a quantifier.
RECURSIVE QuantifiesQuantifier(_, _, _)
QuantifiesQuantifier(mode, re, subject) ==
    \/ TakesQuantifierAsAtom(re)
    \/ LET calls == direct_calls(mode, re, subject)
       IN \E n \in 1..Len(calls) :
              QuantifiesQuantifier(mode, calls[n][1], calls[n][2])

(***************************************************************************)
(* C27: a quantifier is never itself quantified: in no call of a core      *)
(* matcher, and in no recursive call it makes, is an unescaped '?', '*' or *)
(* '+' taken as the atom of the quantifier character after it.             *)
(***************************************************************************)
C27_QuantifierNeverQuantified ==
    (pc = "done" /\ op \in {"full", "prefix"})
        => ~QuantifiesQuantifier(op, regex, string)

(***************************************************************************)
(* The core matchers with the branches of the quantified-atom step tried   *)
(* in the order continue-repetition, end-repetition, skip.                 *)
(***************************************************************************)
RECURSIVE full_reordered(_, _)
full_reordered(re, s) ==
    IF re = <<>> THEN s = <<>>
    ELSE IF re[1] = BS /\ Len(re) >= 2
    THEN IF s # <<>> /\ re[2] = s[1]
         THEN full_reordered(From(re, 2), From(s, 1))
         ELSE FALSE
    ELSE IF Len(re) > 1 /\ re[2] \in {"?", "*", "+"}
    THEN LET fits == s # <<>> /\ (re[1] = "." \/ re[1] = s[1])
         IN IF fits /\ re[2] \in {"*", "+"} /\ full_reordered(re, From(s, 1))
            THEN TRUE
            ELSE IF fits /\ full_reordered(From(re, 2), From(s, 1))
            THEN TRUE
            ELSE IF re[2] \in {"?", "*"} /\ full_reordered(From(re, 2), s)
            THEN TRUE
            ELSE FALSE
    ELSE IF s # <<>> /\ (re[1] = "." \/ re[1] = s[1])
    THEN full_reordered(From(re, 1), From(s, 1))
    ELSE FALSE

RECURSIVE prefix_reordered(_, _)
prefix_reordered(re, s) ==
    IF re = <<>> THEN TRUE
    ELSE IF re[1] = BS /\ Len(re) >= 2
    THEN IF s # <<>> /\ re[2] = s[1]
         THEN prefix_reordered(From(re, 2), From(s, 1))
         ELSE FALSE
    ELSE IF Len(re) > 1 /\ re[2] \in {"?", "*", "+"}
    THEN LET fits == s # <<>> /\ (re[1] = "." \/ re[1] = s[1])
         IN IF fits /\ re[2] \in {"*", "+"} /\ prefix_reordered(re, From(s, 1))
            THEN TRUE
            ELSE IF fits /\ prefix_reordered(From(re, 2), From(s, 1))
            THEN TRUE
            ELSE IF re[2] \in {"?", "*"} /\ prefix_reordered(From(re, 2), s)
            THEN TRUE
            ELSE FALSE
    ELSE IF s # <<>> /\ (re[1] = "." \/ re[1] = s[1])
    THEN prefix_reordered(From(re, 1), From(s, 1))
    ELSE FALSE

(***************************************************************************)
(* C28: the value returned by regex_match_full and by regex_match_prefix   *)
(* does not depend on the order of the branches of the quantified-atom     *)
(* step: the matcher that tries continue-repetition, then end-repetition,  *)
(* then skip returns the same value for every pattern and subject.         *)
(***************************************************************************)
C28_OrderIndependent ==
    /\ Done("full") => (result <=> full_reordered(regex, string))
    /\ Done("prefix") => (result <=> prefix_reordered(regex, string))

C28_Witness ==
    /\ Done("full")
    /\ regex = <<".", "*", "b">>
    /\ string = <<"a", "b", "b">>
    /\ result
    /\ ~regex_match_full(From(regex, 2), string)
    /\ full_reordered(regex, From(string, 1))

\* The contiguous pieces of s: s = u + t + v for some u and v.
Pieces(s) == {SubSeq(s, a + 1, b) : a \in 0..Len(s), b \in 0..Len(s)}

(***************************************************************************)
(* C29: unanchored search is monotone under extension of the subject: for  *)
(* a pattern p without a leading '^' and without a trailing '$', when      *)
(* regex_search(p, t) is true for a piece t of the subject, that is when   *)
(* the subject is u + t + v, regex_search(p, subject) is true.             *)
(***************************************************************************)
C29_SearchMonotone ==
    (Done("search") /\ ~startswith(regex, "^") /\ ~endswith(regex, "$"))
        => \A t \in Pieces(string) : SearchValue(regex, t) => result

C29_Witness ==
    /\ Done("search")
    /\ regex = <<"a", "+", "b">>
    /\ string = <<"b", "a", "b">>
    /\ SearchValue(regex, <<"a", "b">>)
    /\ ~regex_match_prefix(regex, string)
    /\ result

(***************************************************************************)
(* banking.py.  Card numbers and the texts typed at the console are        *)
(* sequences of one-character strings.  The table card of the database is  *)
(* a function from the numbers of its rows to their balances; card holds   *)
(* what is committed to the file, conn.rows what the open connection sees. *)
(***************************************************************************)
\* The bounds: the last digit of an account identifier, the money held by
\* all accounts together, and the amount typed.
MaxIdentifier == 2
MaxBalance == 3
MaxAmount == 2

Digits == <<"0", "1", "2", "3", "4", "5", "6", "7", "8", "9">>

\* int(d) of one digit character, and str(n) of a number below ten
digit_value(d) == (CHOOSE n \in 1..10 : Digits[n] = d) - 1
digit_char(n) == Digits[n + 1]

\* str.isdigit: not empty and every character a digit
isdigit(t) == t # <<>> /\ \A j \in 1..Len(t) : \E n \in 1..10 : Digits[n] = t[j]

RECURSIVE sum(_)
sum(ds) == IF ds = <<>> THEN 0 ELSE ds[1] + sum(Tail(ds))

\* _luhn_transform: every second digit, from the one before the last
\* leftwards, is doubled, and 9 is taken off a doubled digit above 9.
luhn_transform(digits) ==
    [j \in 1..Len(digits) |->
        IF (Len(digits) - j) % 2 = 1
        THEN LET doubled == digits[j] * 2
             IN IF doubled > 9 THEN doubled - 9 ELSE doubled
        ELSE digits[j]]

digits_of(number) == [j \in 1..Len(number) |-> digit_value(number[j])]

calc_check_digit(partial_15) ==
    LET checksum == sum(luhn_transform(digits_of(partial_15) \o <<0>>)) % 10
    IN (10 - checksum) % 10

valid_luhn(number) ==
    IF ~isdigit(number) THEN FALSE
    ELSE sum(luhn_transform(digits_of(number))) % 10 = 0

IIN == <<"4", "0", "0", "0", "0", "0">>

\* The nine random digits of generate_card_number: eight zeros and one
\* digit up to MaxIdentifier.
AccountIdentifiers ==
    {[j \in 1..9 |-> IF j = 9 THEN digit_char(k) ELSE "0"] : k \in 0..MaxIdentifier}

card_number(account_identifier) ==
    LET partial == IIN \o account_identifier
    IN partial \o <<digit_char(calc_check_digit(partial))>>

CardNumbers == {card_number(a) : a \in AccountIdentifiers}

\* What may be typed as a card number: the numbers that can be generated,
\* one of them with its last digit changed, and a text that is no number.
BadCheckDigit(number) ==
    [number EXCEPT ![Len(number)] =
        digit_char((digit_value(number[Len(number)]) + 1) % 10)]

NumberInputs ==
    CardNumbers
        \cup {BadCheckDigit(n) : n \in CardNumbers}
        \cup {<<"x">>, <<>>}

\* What may be typed as an amount: a digit up to MaxAmount, with or
\* without a minus sign, nothing, or a letter.
AmountInputs ==
    {<<digit_char(k)>> : k \in 0..MaxAmount}
        \cup {<<"-", digit_char(k)>> : k \in 1..MaxAmount}
        \cup {<<"x">>, <<>>}

\* int(text) raises ValueError unless text is an optional sign and digits.
is_int(text) ==
    \/ isdigit(text)
    \/ Len(text) >= 2 /\ text[1] \in {"-", "+"} /\ isdigit(Tail(text))

RECURSIVE natural(_)
natural(t) ==
    IF t = <<>> THEN 0
    ELSE natural(SubSeq(t, 1, Len(t) - 1)) * 10 + digit_value(t[Len(t)])

int(text) ==
    IF text[1] = "-" THEN 0 - natural(Tail(text))
    ELSE IF text[1] = "+" THEN natural(Tail(text))
    ELSE natural(text)

(***************************************************************************)
(* The statements of AccountRepo on the table.                             *)
(***************************************************************************)
\* INSERT INTO card (number, pin, balance) VALUES (?, ?, 0)
insert(rows, number) ==
    [n \in DOMAIN rows \cup {number} |-> IF n = number THEN 0 ELSE rows[n]]

\* UPDATE card SET balance = balance + ? WHERE number = ?
update(rows, number, delta) ==
    [n \in DOMAIN rows |-> IF n = number THEN rows[n] + delta ELSE rows[n]]

\* DELETE FROM card WHERE number = ?
delete(rows, number) == [n \in DOMAIN rows \ {number} |-> rows[n]]

\* The sum of all balances of a table.
RECURSIVE Total(_)
Total(rows) ==
    IF DOMAIN rows = {} THEN 0
    ELSE LET n == CHOOSE m \in DOMAIN rows : TRUE
         IN rows[n] + Total([m \in DOMAIN rows \ {n} |-> rows[m]])

\* AccountRepo.exists and AccountRepo.get_balance, read through the
\* connection
exists(number) == number \in DOMAIN conn.rows
get_balance(number) == IF number \in DOMAIN conn.rows THEN conn.rows[number] ELSE 0

\* self.conn.execute(statement) of a statement that writes, and
\* self.conn.commit() right after it
ExecuteAndCommit(rows) ==
    /\ card' = rows
    /\ conn' = [in_transaction |-> FALSE, rows |-> rows]

Say(message) == bank' = [bank EXCEPT !.message = message]

(***************************************************************************)
(* main: the main menu.                                                    *)
(***************************************************************************)
\* choice 1: create_account, with a number generate_card_number returns
CreateAccount ==
    /\ bank.pc = "main"
    /\ \E account_identifier \in AccountIdentifiers :
           LET number == card_number(account_identifier)
           IN /\ ~exists(number)
              /\ ExecuteAndCommit(insert(conn.rows, number))
    /\ Say("Your card has been created")
    /\ UNCHANGED <<card_before, regex_vars, machine_vars>>

\* choice 2: login; pin_ok is what bcrypt.checkpw finds for the PIN typed
Login ==
    /\ bank.pc = "main"
    /\ \E card_number_typed \in NumberInputs : \E pin_ok \in BOOLEAN :
           IF exists(card_number_typed) /\ pin_ok
           THEN bank' = [bank EXCEPT !.pc = "account",
                                     !.account_number = card_number_typed,
                                     !.message = "You have successfully logged in!"]
           ELSE Say("Wrong card number or PIN!")
    /\ UNCHANGED <<card, conn, card_before, regex_vars, machine_vars>>

(***************************************************************************)
(* account_menu: the menu of the account logged in.                        *)
(***************************************************************************)
\* choice 2: add income
AddIncome ==
    /\ bank.pc = "account"
    /\ \E text \in AmountInputs :
           IF ~is_int(text)
           THEN Say("Invalid amount.") /\ UNCHANGED <<card, conn>>
           ELSE IF int(text) < 0
           THEN Say("Income must be non-negative.") /\ UNCHANGED <<card, conn>>
           ELSE /\ Total(conn.rows) + int(text) <= MaxBalance
                /\ ExecuteAndCommit(update(conn.rows, bank.account_number, int(text)))
                /\ Say("Income was added!")
    /\ UNCHANGED <<card_before, regex_vars, machine_vars>>

\* choice 3: _handle_transfer, up to its call of repo.transfer
HandleTransfer ==
    /\ bank.pc = "account"
    /\ \E target_number \in NumberInputs : \E text \in AmountInputs :
           IF target_number = bank.account_number
           THEN Say("You can't transfer money to the same account!")
                    /\ UNCHANGED card_before
           ELSE IF ~valid_luhn(target_number)
           THEN Say("Probably you made a mistake in the card number. Please try again!")
                    /\ UNCHANGED card_before
           ELSE IF ~exists(target_number)
           THEN Say("Such a card does not exist.") /\ UNCHANGED card_before
           ELSE IF ~is_int(text)
           THEN Say("Invalid amount.") /\ UNCHANGED card_before
           ELSE IF int(text) <= 0
           THEN Say("Amount must be positive.") /\ UNCHANGED card_before
           ELSE IF get_balance(bank.account_number) < int(text)
           THEN Say("Not enough money!") /\ UNCHANGED card_before
           ELSE /\ bank' = [bank EXCEPT !.pc = "transfer_select",
                                        !.target_number = target_number,
                                        !.amount = int(text)]
                /\ card_before' = card
    /\ UNCHANGED <<card, conn, regex_vars, machine_vars>>

(***************************************************************************)
(* AccountRepo.transfer, one step for each statement in its with block.    *)
(* Every statement run on the connection may raise sqlite3.Error (ok is    *)
(* false); the with block then rolls the open transaction back and         *)
(* transfer returns False.  Leaving the with block without an exception    *)
(* commits, and a commit that fails is rolled back.                        *)
(***************************************************************************)
\* The arguments of the call repo.transfer(current_user_number,
\* target_number, amount)
from_number == bank.account_number
to_number == bank.target_number

\* return b
ReturnTransfer(b) ==
    bank' = [bank EXCEPT !.pc = "transfer_returned", !.returned = b,
                         !.sender_balance = 0]

\* The with block is left by an exception: rollback.
Rollback == conn' = [in_transaction |-> FALSE, rows |-> card]

\* The with block is left without an exception: commit.
Commit ==
    /\ card' = conn.rows
    /\ conn' = [in_transaction |-> FALSE, rows |-> conn.rows]

\* sender_balance = self.get_balance(from_number), and the check of it
TransferSelect ==
    /\ bank.pc = "transfer_select"
    /\ \E ok \in BOOLEAN :
           IF ~ok
           THEN Rollback /\ ReturnTransfer(FALSE) /\ UNCHANGED card
           ELSE IF get_balance(from_number) < bank.amount
           THEN Commit /\ ReturnTransfer(FALSE)
           ELSE /\ bank' = [bank EXCEPT !.pc = "transfer_debit",
                                        !.sender_balance = get_balance(from_number)]
                /\ UNCHANGED <<card, conn>>
    /\ UNCHANGED <<card_before, regex_vars, machine_vars>>

\* The debit is committed at once, as add_income commits its update.
TransferDebit_committed ==
    /\ bank.pc = "transfer_debit"
    /\ \E ok \in BOOLEAN :
           IF ok
           THEN /\ ExecuteAndCommit(update(conn.rows, from_number, 0 - bank.amount))
                /\ bank' = [bank EXCEPT !.pc = "transfer_credit"]
           ELSE Rollback /\ ReturnTransfer(FALSE) /\ UNCHANGED card
    /\ UNCHANGED <<card_before, regex_vars, machine_vars>>

\* UPDATE card SET balance = balance - amount WHERE number = from_number
TransferDebit ==
    /\ bank.pc = "transfer_debit"
    /\ \E ok \in BOOLEAN :
           IF ok
           THEN /\ conn' = [in_transaction |-> TRUE,
                            rows |-> update(conn.rows, from_number, 0 - bank.amount)]
                /\ bank' = [bank EXCEPT !.pc = "transfer_credit"]
           ELSE Rollback /\ ReturnTransfer(FALSE)
    /\ UNCHANGED <<card, card_before, regex_vars, machine_vars>>

\* UPDATE card SET balance = balance + amount WHERE number = to_number
TransferCredit ==
    /\ bank.pc = "transfer_credit"
    /\ \E ok \in BOOLEAN :
           IF ok
           THEN /\ conn' = [in_transaction |-> TRUE,
                            rows |-> update(conn.rows, to_number, bank.amount)]
                /\ bank' = [bank EXCEPT !.pc = "transfer_commit"]
           ELSE Rollback /\ ReturnTransfer(FALSE)
    /\ UNCHANGED <<card, card_before, regex_vars, machine_vars>>

\* The end of the with block, and return True
TransferCommit ==
    /\ bank.pc = "transfer_commit"
    /\ \E ok \in BOOLEAN :
           IF ok
           THEN Commit /\ ReturnTransfer(TRUE)
           ELSE Rollback /\ ReturnTransfer(FALSE) /\ UNCHANGED card
    /\ UNCHANGED <<card_before, regex_vars, machine_vars>>

\* _handle_transfer after the call: what it prints
HandleTransferReturned ==
    /\ bank.pc = "transfer_returned"
    /\ bank' = [bank EXCEPT !.pc = "account",
                            !.target_number = <<>>,
                            !.amount = 0,
                            !.returned = FALSE,
                            !.message = IF bank.returned
                                        THEN "Success!"
                                        ELSE "An error occurred during the transfer."]
    /\ card_before' = NoRows
    /\ UNCHANGED <<card, conn, regex_vars, machine_vars>>

\* choice 4: close the account
CloseAccount ==
    /\ bank.pc = "account"
    /\ ExecuteAndCommit(delete(conn.rows, bank.account_number))
    /\ bank' = [bank EXCEPT !.pc = "main",
                            !.account_number = <<>>,
                            !.message = "The account has been closed!"]
    /\ UNCHANGED <<card_before, regex_vars, machine_vars>>

\* choice 5: log out
LogOut ==
    /\ bank.pc = "account"
    /\ bank' = [bank EXCEPT !.pc = "main",
                            !.account_number = <<>>,
                            !.message = "You have successfully logged out!"]
    /\ UNCHANGED <<card, conn, card_before, regex_vars, machine_vars>>

\* choice 0, in either menu
Exit ==
    /\ bank.pc \in {"main", "account"}
    /\ bank' = [bank EXCEPT !.pc = "exit", !.message = "Bye!"]
    /\ UNCHANGED <<card, conn, card_before, regex_vars, machine_vars>>

NextBank ==
    \/ CreateAccount
    \/ Login
    \/ AddIncome
    \/ HandleTransfer
    \/ TransferSelect
    \/ TransferDebit
    \/ TransferCredit
    \/ TransferCommit
    \/ HandleTransferReturned
    \/ CloseAccount
    \/ LogOut
    \/ Exit

InitBanking == Idle(<<>>, <<>>)

SpecBank == InitBanking /\ [][NextBank]_vars

InTransfer ==
    bank.pc \in {"transfer_select", "transfer_debit", "transfer_credit",
                 "transfer_commit"}

(***************************************************************************)
(* C21: AccountRepo.transfer is atomic.  While it runs nothing of it is    *)
(* committed; when it has returned True the sender's committed balance is  *)
(* lower by amount, the receiver's higher by amount and every other row as *)
(* before; when it has returned False every row is as before; in both      *)
(* cases the sum of all balances is the one before the call and no         *)
(* transaction is left open.                                               *)
(***************************************************************************)
C21_TransferAtomic ==
    /\ InTransfer => card = card_before
    /\ (bank.pc = "transfer_returned" /\ bank.returned)
           => /\ DOMAIN card = DOMAIN card_before
              /\ {from_number, to_number} \subseteq DOMAIN card
              /\ card[from_number] = card_before[from_number] - bank.amount
              /\ card[to_number] = card_before[to_number] + bank.amount
              /\ \A n \in DOMAIN card \ {from_number, to_number} :
                     card[n] = card_before[n]
    /\ (bank.pc = "transfer_returned" /\ ~bank.returned) => card = card_before
    /\ bank.pc = "transfer_returned"
           => /\ Total(card) = Total(card_before)
              /\ ~conn.in_transaction
              /\ conn.rows = card

C21_Witness ==
    /\ bank.pc = "transfer_returned"
    /\ bank.returned
    /\ bank.amount = 2
    /\ card_before[from_number] = 3
    /\ card[from_number] = 1
    /\ card[to_number] = 2
    /\ Cardinality(DOMAIN card) = 3

(***************************************************************************)
(* coffee_machine.py: the main loop reads an action and the machine        *)
(* processes it.  The model processes at most MaxActions actions.          *)
(***************************************************************************)
MaxActions == 4

COFFEE_RECIPES ==
    [choice \in {"1", "2", "3"} |->
        CASE choice = "1" -> [name |-> "espresso", water |-> 250, milk |-> 0,
                              beans |-> 16, cost |-> 4]
          [] choice = "2" -> [name |-> "latte", water |-> 350, milk |-> 75,
                              beans |-> 20, cost |-> 7]
          [] choice = "3" -> [name |-> "cappuccino", water |-> 200, milk |-> 100,
                              beans |-> 12, cost |-> 6]]

\* What may be typed at the prompt of buy.
BuyInputs == {"1", "2", "3", "back", "4", ""}

\* What may be typed at the four prompts of fill: int() takes a negative
\* number as well.
FillWater == {-200, 0, 250}
FillMilk == {-500, 0}
FillBeans == {-110, 0}
FillCups == {-9, 0}

\* has_resources: the names of what is short, in the order of the checks.
\* The check of the cups left out.
has_resources_no_cups(m, recipe) ==
    (IF m.water < recipe.water THEN <<"water">> ELSE <<>>)
        \o (IF m.milk < recipe.milk THEN <<"milk">> ELSE <<>>)
        \o (IF m.beans < recipe.beans THEN <<"coffee beans">> ELSE <<>>)

has_resources(m, recipe) ==
    (IF m.water < recipe.water THEN <<"water">> ELSE <<>>)
        \o (IF m.milk < recipe.milk THEN <<"milk">> ELSE <<>>)
        \o (IF m.beans < recipe.beans THEN <<"coffee beans">> ELSE <<>>)
        \o (IF m.cups < 1 THEN <<"disposable cups">> ELSE <<>>)

\* The loop of main is running and the model has actions left.
Running ==
    /\ last.action \notin {"exit", "ValueError"}
    /\ last.count < MaxActions

Processed(action, input) ==
    last' = [action |-> action, input |-> input, count |-> last.count + 1,
             before |-> machine]

\* process("buy"): CoffeeMachine.buy
Buy ==
    /\ Running
    /\ \E choice \in BuyInputs :
           /\ Processed("buy", choice)
           /\ IF choice = "back" THEN UNCHANGED machine
              ELSE IF choice \notin DOMAIN COFFEE_RECIPES THEN UNCHANGED machine
              ELSE LET recipe == COFFEE_RECIPES[choice]
                       missing == has_resources(machine, recipe)
                   IN IF missing # <<>> THEN UNCHANGED machine
                      ELSE machine' = [water |-> machine.water - recipe.water,
                                       milk |-> machine.milk - recipe.milk,
                                       beans |-> machine.beans - recipe.beans,
                                       cups |-> machine.cups - 1,
                                       money |-> machine.money + recipe.cost]
    /\ UNCHANGED <<regex_vars, bank_vars>>

\* process("fill"): CoffeeMachine.fill.  typed is the number of prompts
\* answered with a number; the answer to the next prompt is no number,
\* int() raises ValueError and the program ends with what was added so far.
Fill ==
    /\ Running
    /\ \E w \in FillWater : \E m \in FillMilk : \E b \in FillBeans :
       \E c \in FillCups : \E typed \in 0..4 :
           /\ machine' = [water |-> machine.water + (IF typed >= 1 THEN w ELSE 0),
                          milk |-> machine.milk + (IF typed >= 2 THEN m ELSE 0),
                          beans |-> machine.beans + (IF typed >= 3 THEN b ELSE 0),
                          cups |-> machine.cups + (IF typed >= 4 THEN c ELSE 0),
                          money |-> machine.money]
           /\ Processed(IF typed = 4 THEN "fill" ELSE "ValueError",
                        SubSeq(<<w, m, b, c>>, 1, typed))
    /\ UNCHANGED <<regex_vars, bank_vars>>

\* process("take"): CoffeeMachine.take
Take ==
    /\ Running
    /\ machine' = [machine EXCEPT !.money = 0]
    /\ Processed("take", "")
    /\ UNCHANGED <<regex_vars, bank_vars>>

\* process("remaining"), process("exit") and process of any other text
Other ==
    /\ Running
    /\ \E action \in {"remaining", "exit", "unknown"} : Processed(action, "")
    /\ UNCHANGED <<machine, regex_vars, bank_vars>>

NextMachine ==
    \/ Buy
    \/ Fill
    \/ Take
    \/ Other

InitCoffee == Idle(<<>>, <<>>)

SpecMachine == InitCoffee /\ [][NextMachine]_vars

NonNegative(m) == m.water >= 0 /\ m.milk >= 0 /\ m.beans >= 0 /\ m.cups >= 0

\* The buy of choice is refused by the machine m.
Refused(m, choice) ==
    \/ choice \notin {"1", "2", "3"}
    \/ m.water < COFFEE_RECIPES[choice].water
    \/ m.milk < COFFEE_RECIPES[choice].milk
    \/ m.beans < COFFEE_RECIPES[choice].beans
    \/ m.cups < 1

(***************************************************************************)
(* C30: a buy or a take on a machine whose water, milk, beans and cups are *)
(* not negative leaves them not negative, so they stay so through every    *)
(* sequence of buy and take; a refused buy (a resource short, an unknown   *)
(* choice, 'back') leaves the five fields as they were, an accepted buy    *)
(* lowers water, milk and beans by the amounts of the recipe and cups by   *)
(* 1 and raises money by the cost; take changes money only.                *)
(***************************************************************************)
C30_BuyNeverNegative ==
    /\ (last.action \in {"buy", "take"} /\ NonNegative(last.before))
           => NonNegative(machine)
    /\ (last.action = "buy" /\ Refused(last.before, last.input))
           => machine = last.before
    /\ (last.action = "buy" /\ ~Refused(last.before, last.input))
           => LET recipe == COFFEE_RECIPES[last.input]
              IN /\ machine.water = last.before.water - recipe.water
                 /\ machine.milk = last.before.milk - recipe.milk
                 /\ machine.beans = last.before.beans - recipe.beans
                 /\ machine.cups = last.before.cups - 1
                 /\ machine.money = last.before.money + recipe.cost
    /\ last.action = "take"
           => machine = [last.before EXCEPT !.money = 0]

\* A latte is refused for the lack of a cup only.
C30_Witness ==
    /\ last.action = "buy"
    /\ last.input = "2"
    /\ last.before.cups = 0
    /\ has_resources(last.before, COFFEE_RECIPES["2"]) = <<"disposable cups">>
    /\ machine = last.before
    /\ NonNegative(machine)

====
